---- MODULE Spec2Model ----
(***************************************************************************)
(* Model of api_music/main.py: the three request handlers                  *)
(* (get_artist_songs, get_stream_url / fetch_stream_url, search_songs) and *)
(* the module-level stream cache song_cache with its CACHE_TIMEOUT.        *)
(*                                                                         *)
(* Python values are modelled as follows.                                  *)
(*   dict          a function whose DOMAIN is the set of keys present      *)
(*   d.get(k, x)   Get(d, k, x)                                            *)
(*   None          the string None where a string is expected; a None or   *)
(*                 empty dict entry/result is the empty function EmptyDict *)
(*                 (the code only ever tests such values with "not x")     *)
(*   list          a sequence                                              *)
(*   exception     a record [exc |-> <class name>]                         *)
(*   datetime      an integer number of clock ticks of 10 minutes          *)
(***************************************************************************)
EXTENDS Integers, Sequences, FiniteSets, TLC

VARIABLES
    song_cache,   \* main.py:58   cache key -> <<stream url, timestamp>>
    now,          \* datetime.now(), in ticks
    ARTIST_URLS,  \* main.py:42   the configured source locators
    req,          \* the request (and provider answers) of the handler that ran last
    resp,         \* what that handler returned or raised
    tasks,        \* SpecConc only: position of each in-flight fetch_stream_url call
    last_ok       \* history: video id -> <<url, time>> returned by the last
                  \* fetch_stream_url call that got its url from the provider

vars == <<song_cache, now, ARTIST_URLS, req, resp, tasks, last_ok>>

-----------------------------------------------------------------------------
(* Bounds of the model *)

\* longest provider format list given to the format selection
MaxLen == 3
\* last clock tick of the sequential cache specification
MaxTime == 4
\* last clock tick of the concurrent cache specification
MaxConcTime == 3
\* longest configured list of source locators
MaxSources == 3
\* longest provider entry list of a search
MaxEntries == 3
\* concurrent fetch_stream_url calls
MaxTasks == 2

\* main.py:57  timedelta(minutes=30), in clock ticks of 10 minutes
CACHE_TIMEOUT == 3

-----------------------------------------------------------------------------
(* Python helpers *)

None == "<None>"
EmptyDict == <<>>
NoResp == [status |-> 0]

Get(d, k, default) == IF k \in DOMAIN d THEN d[k] ELSE default

\* bool(x) of a dict or None
Truthy(d) == DOMAIN d # {}

\* all sequences over S of length 0..n
SeqsUpTo(S, n) == UNION {[1..k -> S] : k \in 0..n}

\* [f for f in s if Test(f)], in order
RECURSIVE SelectInOrder(_, _)
SelectInOrder(s, keep) ==
    IF s = <<>> THEN <<>>
    ELSE (IF 1 \in keep THEN <<Head(s)>> ELSE <<>>)
         \o SelectInOrder(Tail(s), {i - 1 : i \in keep \ {1}})

-----------------------------------------------------------------------------
(* Format selection, fetch_stream_url lines 166-169 *)

\* the filter that asks for an audio codec field and accepts a missing video
\* codec field
IsAudioFormatByPresence(f) ==
    /\ "acodec" \in DOMAIN f /\ f["acodec"] # "none"
    /\ ("vcodec" \notin DOMAIN f \/ f["vcodec"] = "none")

\* main.py:167  f.get('acodec') != 'none' and f.get('vcodec') == 'none'
\* (f.get(k) is None when the field is missing)
IsAudioFormat(f) ==
    /\ Get(f, "acodec", None) # "none"
    /\ Get(f, "vcodec", None) = "none"

\* main.py:167  the list comprehension
audio_formats(formats) ==
    SelectInOrder(formats, {i \in 1..Len(formats) : IsAudioFormat(formats[i])})

\* main.py:168  key=lambda x: x.get('quality', 0)
QualityKey(f) == Get(f, "quality", 0)

\* One step of a stable descending sort: x goes after every element whose key
\* is >= its own, so equal keys keep their input order.
InsertStable(sorted, x) ==
    LET pos == Cardinality({i \in 1..Len(sorted) : QualityKey(sorted[i]) >= QualityKey(x)})
    IN  SubSeq(sorted, 1, pos) \o <<x>> \o SubSeq(sorted, pos + 1, Len(sorted))

\* the same step of a sort that puts x before its equals
InsertBeforeEquals(sorted, x) ==
    LET pos == Cardinality({i \in 1..Len(sorted) : QualityKey(sorted[i]) > QualityKey(x)})
    IN  SubSeq(sorted, 1, pos) \o <<x>> \o SubSeq(sorted, pos + 1, Len(sorted))

RECURSIVE SortFrom(_, _)
SortFrom(done, rest) ==
    IF rest = <<>> THEN done
    ELSE SortFrom(InsertStable(done, Head(rest)), Tail(rest))

RECURSIVE SortFromUnstable(_, _)
SortFromUnstable(done, rest) ==
    IF rest = <<>> THEN done
    ELSE SortFromUnstable(InsertBeforeEquals(done, Head(rest)), Tail(rest))

\* list(reversed(sorted(s, key=...))): descending, but equal keys in reverse order
sorted_then_reversed(s) == SortFromUnstable(<<>>, s)

\* main.py:168  sorted(s, key=lambda x: x.get('quality', 0), reverse=True)
\* Python's sort is stable, and reverse=True keeps the input order of equal keys.
sorted_reverse(s) == SortFrom(<<>>, s)

\* main.py:166-169 on the provider's format list: the stream url, or the
\* exception the subscripts raise
select_stream_url(formats) ==
    LET af == audio_formats(formats)
        ranked == sorted_reverse(af)
    IN  IF ranked = <<>> THEN [exc |-> "IndexError"]                 \* [0] of an empty list
        ELSE IF "url" \notin DOMAIN ranked[1] THEN [exc |-> "KeyError:url"]  \* best_audio['url']
        ELSE [exc |-> "", url |-> ranked[1]["url"]]

-----------------------------------------------------------------------------
(* The stream cache and fetch_stream_url / get_stream_url, lines 147-175 *)

VideoIds == {"a", "b"}

\* main.py:165  f"https://music.youtube.com/watch?v={video_id}"
watch_url(video_id) == "https://music.youtube.com/watch?v=" \o video_id

\* main.py:157  f"stream_{video_id}"
cache_key(video_id) == "stream_" \o video_id

\* the n-th stream url the provider may give for a watch url (stream urls are
\* signed per request, so two calls for one video may give different urls)
StreamUrl(watch, n) == "cdn:" \o watch \o "#" \o ToString(n)
UrlsFor(video_id) == {StreamUrl(watch_url(video_id), n) : n \in 1..2}

AudioFormat(q, u) == [acodec |-> "opus", vcodec |-> "none", quality |-> q, url |-> u]
VideoFormat(q, u) == [acodec |-> "none", vcodec |-> "avc1", quality |-> q, url |-> u]

\* What ydl.extract_info(watch, download=False) at line 165 may do: raise, return
\* None, or return an info dict, with or without a format list.
StreamAnswers(watch) ==
    LET u1 == StreamUrl(watch, 1)
        u2 == StreamUrl(watch, 2)
        Info(fs) == [kind |-> "dict", info |-> [id |-> watch, formats |-> fs]]
    IN  { [kind |-> "raise"],
          [kind |-> "None"],
          [kind |-> "dict", info |-> [id |-> watch]],
          Info(<<>>),
          Info(<<VideoFormat(2, u1)>>),
          Info(<<[acodec |-> "opus", vcodec |-> "none", quality |-> 1]>>),
          Info(<<AudioFormat(1, u1)>>),
          Info(<<VideoFormat(2, u1), AudioFormat(1, u1), AudioFormat(2, u2)>>) }

\* a freshness test that still accepts an entry whose age equals the timeout
is_fresh_inclusive(c, key, t) == key \in DOMAIN c /\ t - c[key][2] <= CACHE_TIMEOUT

\* a freshness test with the comparison turned round
is_fresh_reversed(c, key, t) == key \in DOMAIN c /\ t - c[key][2] > CACHE_TIMEOUT

\* main.py:158-160  cache_key in song_cache and datetime.now() - timestamp < CACHE_TIMEOUT
is_fresh(c, key, t) == key \in DOMAIN c /\ t - c[key][2] < CACHE_TIMEOUT

\* a put that keeps an entry already there (dict.setdefault)
cache_put_if_absent(c, key, value, t) ==
    [k \in DOMAIN c \cup {key} |-> IF k \in DOMAIN c THEN c[k] ELSE <<value, t>>]

\* main.py:172  song_cache[cache_key] = (stream_url, datetime.now())
cache_put(c, key, value, t) ==
    [k \in DOMAIN c \cup {key} |-> IF k = key THEN <<value, t>> ELSE c[k]]

\* str(e) of the exceptions lines 165-169 raise
StrOfException(exc) ==
    CASE exc = "DownloadError" -> "ERROR: Video unavailable"
      [] exc = "TypeError" -> "'NoneType' object is not subscriptable"
      [] exc = "KeyError:formats" -> "'formats'"
      [] exc = "KeyError:url" -> "'url'"
      [] exc = "IndexError" -> "list index out of range"

\* main.py:165-169  the provider call and the selection: [exc |-> "", url |-> u]
\* or the exception raised
extract_stream_url(ans) ==
    IF ans.kind = "raise" THEN [exc |-> "DownloadError"]
    ELSE IF ans.kind = "None" THEN [exc |-> "TypeError"]            \* None['formats']
    ELSE IF "formats" \notin DOMAIN ans.info THEN [exc |-> "KeyError:formats"]
    ELSE select_stream_url(ans.info["formats"])

\* an except clause that catches only the provider's own error, any other
\* exception reaching the framework as a server error
on_exception_narrow(c, key, exc, t) ==
    [status |-> IF exc = "DownloadError" THEN 404 ELSE 500,
     detail |-> StrOfException(exc), cache |-> c]

\* an except clause that records the failure in the cache
on_exception_negative_entry(c, key, exc, t) ==
    [status |-> 404, detail |-> StrOfException(exc), cache |-> cache_put(c, key, None, t)]

\* main.py:174-175  except Exception as e: raise HTTPException(404, detail=str(e))
\* (every exception of lines 164-173 is an Exception); song_cache is not touched
on_exception(c, key, exc, t) ==
    [status |-> 404, detail |-> StrOfException(exc), cache |-> c]

\* main.py:163-175  the part of fetch_stream_url after a cache miss, the provider
\* having answered ans at time t: what is returned or raised, and the cache
\* afterwards
fetch_after_miss(c, video_id, ans, t) ==
    LET key == cache_key(video_id)
        r == extract_stream_url(ans)
    IN  IF r.exc = ""
        THEN [status |-> 200, url |-> r.url, cache |-> cache_put(c, key, r.url, t)]
        ELSE on_exception(c, key, r.exc, t)

\* main.py:156-175  fetch_stream_url(video_id) called at time t on cache c, the
\* provider answering ans after d ticks if it is called.  The result: what is
\* returned or raised, the cache afterwards, whether the provider was called,
\* and the time when the call ends.
fetch_stream_url(c, video_id, t, ans, d) ==
    LET key == cache_key(video_id)
    IN  IF is_fresh(c, key, t)
        THEN [status |-> 200, url |-> c[key][1], cache |-> c, called |-> FALSE, clock |-> t]
        ELSE fetch_after_miss(c, video_id, ans, t + d) @@ [called |-> TRUE, clock |-> t + d]

\* main.py:147-154  get_stream_url: the url wrapped in a body, an exception of
\* fetch_stream_url logged and raised again unchanged
get_stream_url(c, video_id, t, ans, d) ==
    LET r == fetch_stream_url(c, video_id, t, ans, d)
    IN  IF r.status = 200
        THEN [status |-> 200, body |-> [stream_url |-> r.url],
              cache |-> r.cache, called |-> r.called, clock |-> r.clock]
        ELSE r

NoAnswer == [kind |-> "not called"]

InitCache ==
    /\ song_cache = EmptyDict
    /\ now = 0
    /\ ARTIST_URLS = <<>>
    /\ req = [op |-> "none"]
    /\ resp = NoResp
    /\ tasks = <<>>
    /\ last_ok = EmptyDict

\* GET /get_stream_url/{video_id}, served from start to end without another
\* request in between (the coroutine has no await inside)
GetStreamUrl(video_id) ==
    \E ans \in StreamAnswers(watch_url(video_id)), d \in 0..1 :
        LET r == get_stream_url(song_cache, video_id, now, ans, d)
        IN  /\ r.clock <= MaxTime
            /\ (~r.called) => (d = 0 /\ ans = [kind |-> "raise"])  \* unused on a hit
            /\ song_cache' = r.cache
            /\ now' = r.clock
            /\ req' = [op |-> "stream", video_id |-> video_id, at |-> now,
                       ans |-> IF r.called THEN ans ELSE NoAnswer,
                       after_failure |-> /\ req.op = "stream"
                                         /\ req.video_id = video_id
                                         /\ resp.status = 404,
                       prior |-> IF video_id \in DOMAIN last_ok
                                 THEN <<last_ok[video_id]>> ELSE <<>>]
            /\ resp' = [x \in DOMAIN r \ {"cache", "clock"} |-> r[x]]
            /\ last_ok' = IF r.status = 200 /\ r.called
                           THEN [v \in DOMAIN last_ok \cup {video_id} |->
                                   IF v = video_id THEN <<r.body.stream_url, r.clock>>
                                   ELSE last_ok[v]]
                           ELSE last_ok
            /\ UNCHANGED <<ARTIST_URLS, tasks>>

\* time passes between requests
Tick ==
    /\ now < MaxTime
    /\ now' = now + 1
    /\ UNCHANGED <<song_cache, ARTIST_URLS, req, resp, tasks, last_ok>>

Next ==
    \/ \E video_id \in VideoIds : GetStreamUrl(video_id)
    \/ Tick

Spec == InitCache /\ [][Next]_vars

Resolved == req.op = "stream"

\* the entry the last provider-backed resolve of this request's video id stored
HasPrior == Resolved /\ req.prior # <<>>
PriorUrl == req.prior[1][1]
PriorAge == req.at - req.prior[1][2]

\* C1: a resolve made CACHE_TIMEOUT or more after the last insertion for its
\* video id (age = CACHE_TIMEOUT included) is never served from the cache: the
\* provider is called.
C1_ExpiredIsMiss ==
    (HasPrior /\ PriorAge >= CACHE_TIMEOUT) => resp.called

\* C1 witness: a resolve exactly CACHE_TIMEOUT after the insertion, the entry
\* still in the mapping, and the provider was called.
C1_Witness ==
    /\ HasPrior
    /\ PriorAge = CACHE_TIMEOUT
    /\ resp.called
    /\ cache_key(req.video_id) \in DOMAIN song_cache

\* C2: a resolve made less than CACHE_TIMEOUT after a successful provider-backed
\* resolve of the same video id calls no provider and returns the url that
\* resolve returned.
C2_HitWithinWindow ==
    (HasPrior /\ PriorAge < CACHE_TIMEOUT) =>
        /\ ~resp.called
        /\ resp.status = 200
        /\ resp.body.stream_url = PriorUrl

\* C2 witness: a hit, some ticks after the insertion, on a url the provider
\* would not necessarily give again.
C2_Witness ==
    /\ HasPrior
    /\ PriorAge = CACHE_TIMEOUT - 1
    /\ ~resp.called
    /\ resp.body.stream_url = StreamUrl(watch_url(req.video_id), 2)

\* C3: a step that ends in a failed resolve leaves song_cache as it was, and a
\* resolve that directly follows a failed resolve of the same video id calls
\* the provider.
C3_FailureLeavesCache ==
    [][ /\ (resp'.status = 404 => song_cache' = song_cache)
        /\ ((req'.op = "stream" /\ req'.after_failure) => resp'.called) ]_vars

\* C3 witness: a resolve failed while a (stale) entry for its key was in the
\* cache, and the next resolve of the same id called the provider.
C3_Witness ==
    /\ HasPrior
    /\ req.after_failure
    /\ resp.called
    /\ song_cache[cache_key(req.video_id)] = req.prior[1]

\* the provider's answer has no usable audio-only format: it raised, returned
\* None or no format list, or every format of the list carries a video codec
AnswerUnplayable(ans) ==
    \/ ans.kind \in {"raise", "None"}
    \/ "formats" \notin DOMAIN ans.info
    \/ \A i \in DOMAIN ans.info["formats"] : ans.info["formats"][i]["vcodec"] # "none"

\* C7 (as amended): a resolve ends with status 200 or 404 and nothing else, and
\* ends with 404 whenever the provider raised, returned None or no format list,
\* or returned only video formats.
C7_FailureIs404 ==
    Resolved =>
        /\ resp.status \in {200, 404}
        /\ (resp.called /\ AnswerUnplayable(req.ans)) => resp.status = 404

\* C7 witness: the provider returned a non-empty list of video formats only
\* and the resolve ended with 404.
C7_Witness ==
    /\ Resolved
    /\ resp.called
    /\ req.ans.kind = "dict"
    /\ "formats" \in DOMAIN req.ans.info
    /\ req.ans.info["formats"] # <<>>
    /\ AnswerUnplayable(req.ans)
    /\ resp.status = 404

\* C7 as claimed: every failed resolve yields 404 and the caller cannot tell the
\* failures apart: two failed resolves in a row give the same response.
C7_AsClaimed ==
    [][ (Resolved /\ resp.status # 200 /\ req'.op = "stream" /\ resp'.status # 200) =>
            (resp'.status = 404 /\ resp' = resp) ]_vars

-----------------------------------------------------------------------------
(* SpecConc: fetch_stream_url calls that overlap.  The coroutine takes no lock *)
(* and spends its time in the provider call of line 165; here other calls may *)
(* run while one waits there, so two calls may both miss, both ask the        *)
(* provider and both write.  Every behaviour of Spec, where a call runs from  *)
(* start to end, is one of these with the two steps of a call back to back.   *)

Tasks == 1..MaxTasks
Idle == [pc |-> "idle"]

\* the answers a provider call may give in SpecConc
ConcAnswers(watch) ==
    { [kind |-> "raise"],
      [kind |-> "dict", info |-> [id |-> watch, formats |-> <<AudioFormat(1, StreamUrl(watch, 1))>>]],
      [kind |-> "dict", info |-> [id |-> watch, formats |->
            <<AudioFormat(1, StreamUrl(watch, 1)), AudioFormat(2, StreamUrl(watch, 2))>>]] }

InitConc ==
    /\ song_cache = EmptyDict
    /\ now = 0
    /\ ARTIST_URLS = <<>>
    /\ req = [op |-> "none"]
    /\ resp = NoResp
    /\ tasks = [t \in Tasks |-> Idle]
    /\ last_ok = EmptyDict

\* main.py:157-161  a call starts: the cache lookup, and the return on a hit
BeginFetch(t, video_id) ==
    /\ tasks[t] = Idle
    /\ tasks' = [tasks EXCEPT ![t] =
            IF is_fresh(song_cache, cache_key(video_id), now)
            THEN [pc |-> "done", video_id |-> video_id, status |-> 200,
                  url |-> song_cache[cache_key(video_id)][1], called |-> FALSE, raced |-> FALSE]
            ELSE [pc |-> "extracting", video_id |-> video_id]]
    /\ UNCHANGED <<song_cache, now, ARTIST_URLS, req, resp, last_ok>>

\* main.py:165-175  the provider answers a waiting call: selection, put, return
FinishFetch(t) ==
    /\ tasks[t].pc = "extracting"
    /\ \E ans \in ConcAnswers(watch_url(tasks[t].video_id)) :
         LET video_id == tasks[t].video_id
             r == fetch_after_miss(song_cache, video_id, ans, now)
             raced == \E o \in Tasks \ {t} :
                         tasks[o].pc = "extracting" /\ tasks[o].video_id = video_id
         IN  /\ song_cache' = r.cache
             /\ tasks' = [tasks EXCEPT ![t] =
                    [pc |-> "done", video_id |-> video_id, status |-> r.status,
                     url |-> IF r.status = 200 THEN r.url ELSE "", called |-> TRUE,
                     raced |-> raced]]
             /\ last_ok' = IF r.status = 200
                           THEN [v \in DOMAIN last_ok \cup {video_id} |->
                                   IF v = video_id THEN <<r.url, now>> ELSE last_ok[v]]
                           ELSE last_ok
    /\ UNCHANGED <<now, ARTIST_URLS, req, resp>>

\* the response of a finished call is delivered
ReturnFetch(t) ==
    /\ tasks[t].pc = "done"
    /\ tasks' = [tasks EXCEPT ![t] = Idle]
    /\ UNCHANGED <<song_cache, now, ARTIST_URLS, req, resp, last_ok>>

ConcTick ==
    /\ now < MaxConcTime
    /\ now' = now + 1
    /\ UNCHANGED <<song_cache, ARTIST_URLS, req, resp, tasks, last_ok>>

NextConc ==
    \/ \E t \in Tasks, video_id \in VideoIds : BeginFetch(t, video_id)
    \/ \E t \in Tasks : FinishFetch(t)
    \/ \E t \in Tasks : ReturnFetch(t)
    \/ ConcTick

SpecConc == InitConc /\ [][NextConc]_vars

\* C9: under every interleaving the mapping holds, for each video id that some
\* call resolved through the provider, one entry under that id's own key: the
\* url and time of the last such call to complete; it holds nothing else; and
\* every url a call returns is one the provider gives for that call's video id.
C9_LastWriteWins ==
    /\ DOMAIN song_cache = {"stream_" \o v : v \in DOMAIN last_ok}
    /\ \A v \in DOMAIN last_ok : song_cache["stream_" \o v] = last_ok[v]
    /\ \A t \in Tasks :
          (tasks[t].pc = "done" /\ tasks[t].status = 200) =>
              tasks[t].url \in UrlsFor(tasks[t].video_id)

\* C9 witness: two calls for one video id were both waiting for the provider;
\* both got a url, the two urls differ, and the mapping holds the url of the
\* one that completed last.
C9_Witness ==
    \E t, o \in Tasks :
        /\ t # o
        /\ tasks[t].pc = "done" /\ tasks[o].pc = "done"
        /\ tasks[t].video_id = tasks[o].video_id
        /\ tasks[t].called /\ tasks[o].called
        /\ tasks[t].status = 200 /\ tasks[o].status = 200
        /\ tasks[t].raced
        /\ tasks[t].url # tasks[o].url
        /\ song_cache[cache_key(tasks[o].video_id)][1] = tasks[o].url

-----------------------------------------------------------------------------
(* SpecSelect: the format selection on every bounded provider format list *)

AcodecFields == {EmptyDict, "acodec" :> "none", "acodec" :> "opus"}
VcodecFields == {EmptyDict, "vcodec" :> "none", "vcodec" :> "avc1"}
QualityFields == {EmptyDict, "quality" :> -1, "quality" :> 1}

\* a provider format without its url
FormatShapes == {a @@ v @@ q : a \in AcodecFields, v \in VcodecFields, q \in QualityFields}

\* the i-th format of a list carries its own url
FormatLists ==
    {[i \in DOMAIN s |-> s[i] @@ ("url" :> ("u" \o ToString(i)))] : s \in SeqsUpTo(FormatShapes, MaxLen)}

InitSelect ==
    /\ song_cache = EmptyDict
    /\ now = 0
    /\ ARTIST_URLS = <<>>
    /\ req \in {[op |-> "select", formats |-> fs] : fs \in FormatLists}
    /\ resp = NoResp
    /\ tasks = <<>>
    /\ last_ok = EmptyDict

\* main.py:166-169 applied to the pending format list
SelectFormat ==
    /\ req.op = "select"
    /\ resp = NoResp
    /\ resp' = [candidates |-> audio_formats(req.formats)] @@ select_stream_url(req.formats)
    /\ UNCHANGED <<song_cache, now, ARTIST_URLS, req, tasks, last_ok>>

NextSelect == SelectFormat

SpecSelect == InitSelect /\ [][NextSelect]_vars

\* positions of req.formats whose url is among the candidates the selection kept
\* (every format of a list has its own url)
CandidatePositions ==
    {i \in DOMAIN req.formats :
        \E j \in DOMAIN resp.candidates : resp.candidates[j]["url"] = req.formats[i]["url"]}

Selected == req.op = "select" /\ resp # NoResp

\* the quality the code ranks a format by: its quality field, 0 when it has none
RankOf(f) == IF "quality" \in DOMAIN f THEN f["quality"] ELSE 0

\* C4: whenever the selection kept at least one candidate, the url returned is
\* the url of the candidate of maximum quality, and among several candidates of
\* maximum quality that of the one standing first in the provider's list.
C4_FirstOfMaximum ==
    (Selected /\ CandidatePositions # {}) =>
        /\ resp.exc = ""
        /\ \E i \in CandidatePositions :
              /\ resp.url = req.formats[i]["url"]
              /\ \A j \in CandidatePositions :
                    \/ RankOf(req.formats[j]) < RankOf(req.formats[i])
                    \/ (RankOf(req.formats[j]) = RankOf(req.formats[i]) /\ i <= j)

\* C4 witness: three candidates, the first of lower quality than the two that
\* share the maximum, and the url returned is that of the second.
C4_Witness ==
    /\ Selected
    /\ CandidatePositions = {1, 2, 3}
    /\ RankOf(req.formats[1]) < RankOf(req.formats[2])
    /\ RankOf(req.formats[2]) = RankOf(req.formats[3])
    /\ resp.url = req.formats[2]["url"]

\* C5 (as amended): the candidates are exactly the formats whose acodec field is
\* not the string "none" (a format with no acodec field counts) and whose vcodec
\* field is present and equal to "none" (a format with no vcodec field does not
\* count).
C5_CandidatesByCode ==
    Selected =>
        CandidatePositions =
            {i \in DOMAIN req.formats :
                /\ ("acodec" \notin DOMAIN req.formats[i] \/ req.formats[i]["acodec"] # "none")
                /\ "vcodec" \in DOMAIN req.formats[i]
                /\ req.formats[i]["vcodec"] = "none"}

\* C5 witness: a format with no acodec field and vcodec "none" is kept, and a
\* format with an audio codec and no vcodec field is dropped.
C5_Witness ==
    /\ Selected
    /\ \E i \in CandidatePositions : "acodec" \notin DOMAIN req.formats[i]
    /\ \E i \in DOMAIN req.formats \ CandidatePositions :
          /\ "acodec" \in DOMAIN req.formats[i] /\ req.formats[i]["acodec"] = "opus"
          /\ "vcodec" \notin DOMAIN req.formats[i]

\* C5 as claimed: the candidates are exactly the formats whose audio codec is
\* present and not "none" and whose video codec is absent or "none".
C5_AsClaimed ==
    Selected =>
        CandidatePositions =
            {i \in DOMAIN req.formats :
                /\ "acodec" \in DOMAIN req.formats[i]
                /\ req.formats[i]["acodec"] # "none"
                /\ ("vcodec" \notin DOMAIN req.formats[i] \/ req.formats[i]["vcodec"] = "none")}

-----------------------------------------------------------------------------
(* Entry normalisation, lines 110-125 and 189-204 *)

\* "not video_id" of a string or None
is_missing(x) == x \in {"", None}

\* main.py:118-124 and 197-203  Song(...) of an entry with a video id
Song(entry, video_id) ==
    [title |-> Get(entry, "title", ""),
     url |-> "https://music.youtube.com/watch?v=" \o video_id,
     thumbnail |-> IF is_missing(Get(entry, "thumbnail", ""))
                   THEN "https://i.ytimg.com/vi/" \o video_id \o "/default.jpg"
                   ELSE entry["thumbnail"],
     duration |-> IF "duration" \in DOMAIN entry THEN ToString(entry["duration"]) ELSE "0",
     video_id |-> video_id]

\* a loop body without the test of the video id
songs_of_entry_any_id(entry) ==
    IF ~Truthy(entry) THEN <<>>
    ELSE <<Song(entry, Get(entry, "id", ""))>>

\* main.py:111-125 and 190-204  one turn of the loop over the entries: the songs
\* the entry adds
songs_of_entry(entry) ==
    IF ~Truthy(entry) THEN <<>>                              \* if not entry: continue
    ELSE IF is_missing(Get(entry, "id", "")) THEN <<>>       \* if not video_id: continue
    ELSE <<Song(entry, entry["id"])>>

\* main.py:110-125 and 189-204  the loop over the entries
RECURSIVE songs_of_entries(_)
songs_of_entries(entries) ==
    IF entries = <<>> THEN <<>>
    ELSE songs_of_entry(Head(entries)) \o songs_of_entries(Tail(entries))

\* entries a flat listing may hold: None, entries without a usable id, and
\* entries with an id, with and without the optional fields
FullEntry(idf) == idf @@ [title |-> "Song", thumbnail |-> "t.jpg", duration |-> 215]
ProviderEntries ==
    {EmptyDict}
    \cup {"id" :> i : i \in {"", None, "a", "b"}}
    \cup {FullEntry(idf) : idf \in {EmptyDict, "id" :> "", "id" :> "a", "id" :> "b"}}
    \cup {[id |-> "a", thumbnail |-> ""]}

-----------------------------------------------------------------------------
(* search_songs, lines 179-210 *)

\* main.py:182  f"ytsearch10:{query}"
search_query(query) == "ytsearch10:" \o query

\* main.py:180-210  search_songs on the provider's answer
search_songs(ans) ==
    IF ans.kind = "raise"
    THEN [status |-> 500, detail |-> "ERROR: search failed"]          \* lines 208-210
    ELSE IF ans.kind = "None" \/ ~Truthy(ans.info) \/ "entries" \notin DOMAIN ans.info
    THEN [status |-> 200, body |-> <<>>]                              \* lines 185-186
    ELSE [status |-> 200, body |-> songs_of_entries(ans.info["entries"])]

\* what ydl.extract_info(search_query, download=False) may do
SearchAnswers(q) ==
    { [kind |-> "raise"], [kind |-> "None"],
      [kind |-> "dict", info |-> EmptyDict],
      [kind |-> "dict", info |-> [id |-> q]] }
    \cup {[kind |-> "dict", info |-> [id |-> q, entries |-> es]] :
            es \in SeqsUpTo(ProviderEntries, MaxEntries)}

InitSearch ==
    /\ song_cache = EmptyDict
    /\ now = 0
    /\ ARTIST_URLS = <<>>
    /\ req \in {[op |-> "search", query |-> "bernadya", ans |-> a] :
                  a \in SearchAnswers(search_query("bernadya"))}
    /\ resp = NoResp
    /\ tasks = <<>>
    /\ last_ok = EmptyDict

\* GET /search_songs?query=...
SearchSongs ==
    /\ req.op = "search"
    /\ resp = NoResp
    /\ resp' = search_songs(req.ans)
    /\ UNCHANGED <<song_cache, now, ARTIST_URLS, req, tasks, last_ok>>

NextSearch == SearchSongs

SpecSearch == InitSearch /\ [][NextSearch]_vars

Searched == req.op = "search" /\ resp # NoResp

HasEntries(ans) == ans.kind = "dict" /\ "entries" \in DOMAIN ans.info

\* positions of the entries that are not null and carry a non-empty id
UsablePositions(entries) ==
    {i \in DOMAIN entries :
        /\ "id" \in DOMAIN entries[i]
        /\ entries[i]["id"] # ""
        /\ entries[i]["id"] # None}

\* tracks is, in order, one track per position of keep, with that entry's id
TracksMatch(tracks, entries, keep) ==
    /\ Len(tracks) = Cardinality(keep)
    /\ \E f \in [DOMAIN tracks -> keep] :
          /\ \A j, k \in DOMAIN tracks : j < k => f[j] < f[k]
          /\ \A k \in DOMAIN tracks : tracks[k].video_id = entries[f[k]]["id"]

\* C8: a search whose provider call does not raise succeeds; its tracks are, in
\* provider order, one per entry that is not null and has a non-empty id; each
\* track's url is the watch url of its id; no entries give the empty sequence.
C8_SearchNormalised ==
    (Searched /\ req.ans.kind # "raise") =>
        /\ resp.status = 200
        /\ \A k \in DOMAIN resp.body :
              resp.body[k].url = "https://music.youtube.com/watch?v=" \o resp.body[k].video_id
        /\ IF HasEntries(req.ans)
           THEN TracksMatch(resp.body, req.ans.info["entries"],
                            UsablePositions(req.ans.info["entries"]))
           ELSE resp.body = <<>>

\* C8 witness: three entries, the second without an id, give exactly the two
\* tracks of the first and the third.
C8_Witness ==
    /\ Searched
    /\ HasEntries(req.ans)
    /\ Len(req.ans.info["entries"]) = 3
    /\ UsablePositions(req.ans.info["entries"]) = {1, 3}
    /\ "id" \notin DOMAIN req.ans.info["entries"][2]
    /\ Truthy(req.ans.info["entries"][2])
    /\ Len(resp.body) = 2
    /\ resp.body[1].url = "https://music.youtube.com/watch?v=b"
    /\ resp.body[2].url = "https://music.youtube.com/watch?v=a"

-----------------------------------------------------------------------------
(* get_artist_songs, lines 91-143 *)

\* the i-th configured locator
ArtistUrl(i) == "https://music.youtube.com/channel/UC" \o ToString(i)

\* what ydl.extract_info(artist_url, download=False) at line 100 may do
ArtistAnswers ==
    { [kind |-> "raise"],
      [kind |-> "None"],
      [kind |-> "dict", info |-> EmptyDict],
      [kind |-> "dict", info |-> [channel |-> "Artist"]],
      [kind |-> "dict", info |-> [entries |-> <<>>]],
      [kind |-> "dict", info |-> [channel |-> "Artist",
                                  entries |-> <<EmptyDict, "id" :> "a">>]],
      [kind |-> "dict", info |-> [channel |-> "Artist",
                                  entries |-> <<FullEntry("id" :> "b"), FullEntry(EmptyDict),
                                                [id |-> "a", thumbnail |-> ""]>>]] }

\* a loop body without its own try: the provider's error leaves the loop
fetch_artist_unguarded(artist_url, ans) ==
    IF ans.kind = "raise" THEN [exc |-> "DownloadError", batches |-> <<>>]
    ELSE IF ans.kind = "None" \/ ~Truthy(ans.info) THEN [exc |-> "", batches |-> <<>>]
    ELSE [exc |-> "",
          batches |-> <<[artist_url |-> artist_url,
                         artist_name |-> Get(ans.info, "channel", "Unknown Artist"),
                         songs |-> IF "entries" \in DOMAIN ans.info
                                   THEN songs_of_entries(ans.info["entries"]) ELSE <<>>]>>]

\* main.py:96-134  one turn of the loop over ARTIST_URLS: the batches it appends
\* and the exception that leaves the inner try (none: it catches Exception)
fetch_artist(artist_url, ans) ==
    IF ans.kind = "raise" THEN [exc |-> "", batches |-> <<>>]          \* lines 132-134
    ELSE IF ans.kind = "None" \/ ~Truthy(ans.info)
    THEN [exc |-> "", batches |-> <<>>]                                \* lines 102-104
    ELSE [exc |-> "",
          batches |-> <<[artist_url |-> artist_url,
                         artist_name |-> Get(ans.info, "channel", "Unknown Artist"),
                         songs |-> IF "entries" \in DOMAIN ans.info
                                   THEN songs_of_entries(ans.info["entries"]) ELSE <<>>]>>]

\* main.py:95-134  the loop from the i-th locator on, responses holding the
\* batches so far
RECURSIVE artist_loop(_, _, _, _)
artist_loop(urls, answers, i, responses) ==
    IF i > Len(urls) THEN [exc |-> "", responses |-> responses]
    ELSE LET r == fetch_artist(urls[i], answers[i])
         IN  IF r.exc # "" THEN [exc |-> r.exc, responses |-> responses]
             ELSE artist_loop(urls, answers, i + 1, responses \o r.batches)

\* an end of the handler that returns the empty list as it is
finish_always_ok(responses) == [status |-> 200, body |-> responses]

\* main.py:140-143  404 for no batch at all, the batches otherwise
finish_artist_songs(responses) ==
    IF responses = <<>>
    THEN [status |-> 404, detail |-> "No artists or songs found"]
    ELSE [status |-> 200, body |-> responses]

\* main.py:91-143  get_artist_songs over the configured locators
get_artist_songs(urls, answers) ==
    LET r == artist_loop(urls, answers, 1, <<>>)
    IN  IF r.exc # "" THEN [status |-> 500, detail |-> r.exc]          \* lines 136-138
        ELSE finish_artist_songs(r.responses)

InitCatalog ==
    /\ song_cache = EmptyDict
    /\ now = 0
    /\ ARTIST_URLS \in {[i \in 1..n |-> ArtistUrl(i)] : n \in 0..MaxSources}
    /\ req \in {[op |-> "catalog", answers |-> as] :
                  as \in [DOMAIN ARTIST_URLS -> ArtistAnswers]}
    /\ resp = NoResp
    /\ tasks = <<>>
    /\ last_ok = EmptyDict

\* GET /get_artist_songs
GetArtistSongs ==
    /\ req.op = "catalog"
    /\ resp = NoResp
    /\ resp' = get_artist_songs(ARTIST_URLS, req.answers)
    /\ UNCHANGED <<song_cache, now, ARTIST_URLS, req, tasks, last_ok>>

NextCatalog == GetArtistSongs

SpecCatalog == InitCatalog /\ [][NextCatalog]_vars

Aggregated == req.op = "catalog" /\ resp # NoResp

\* the sources whose provider call returned a non-empty result
GoodSources ==
    {i \in DOMAIN ARTIST_URLS :
        req.answers[i].kind = "dict" /\ req.answers[i].info # EmptyDict}

\* the sources whose provider call raised
RaisedSources == {i \in DOMAIN ARTIST_URLS : req.answers[i].kind = "raise"}

\* the batches returned (none when the handler answers 404)
Batches == IF resp.status = 200 THEN resp.body ELSE <<>>

\* C6: whatever sources raise, the aggregation ends without a server error and
\* its batches are, in the order of the locators, exactly one per source whose
\* call returned a non-empty result (even with no track), none for the others.
C6_FailureIsolation ==
    Aggregated =>
        /\ resp.status # 500
        /\ Len(Batches) = Cardinality(GoodSources)
        /\ \E f \in [DOMAIN Batches -> GoodSources] :
              /\ \A j, k \in DOMAIN Batches : j < k => f[j] < f[k]
              /\ \A k \in DOMAIN Batches : Batches[k].artist_url = ARTIST_URLS[f[k]]

\* C6 witness: source 2 of 3 raised, and the two batches returned are those of
\* sources 1 and 3, the latter with an empty track list.
C6_Witness ==
    /\ Aggregated
    /\ Len(ARTIST_URLS) = 3
    /\ RaisedSources = {2}
    /\ GoodSources = {1, 3}
    /\ Len(Batches) = 2
    /\ Batches[1].artist_url = ARTIST_URLS[1]
    /\ Batches[2].artist_url = ARTIST_URLS[3]
    /\ Batches[1].songs # <<>>
    /\ Batches[2].songs = <<>>

\* C10: the handler answers 404 exactly when no source produced a batch, and
\* otherwise answers 200 with the (non-empty) batches; it never answers 500.
C10_NotFoundIffEmpty ==
    Aggregated =>
        /\ resp.status \in {200, 404}
        /\ (resp.status = 404) <=> (GoodSources = {})
        /\ (resp.status = 200) => resp.body # <<>>

\* C10 witness: 404 over three sources of which two raised and one returned
\* nothing.
C10_Witness ==
    /\ Aggregated
    /\ resp.status = 404
    /\ Len(ARTIST_URLS) = 3
    /\ RaisedSources = {1, 3}

====
